---- MODULE Spec2Model ----
(***************************************************************************)
(* Model of vasthu_generator.py: the rule tables, the cached plan          *)
(* generator generate_plan_options, the compliance classification used by  *)
(* plot_plan and by the report in main, and the Streamlit session that     *)
(* drives them.                                                            *)
(*                                                                         *)
(* Zone codes are sequences of characters, because the code tests them for *)
(* the substring 'DEFECT'.  Room names and facing labels are only compared *)
(* for equality and used as dictionary keys, so they stay strings.         *)
(* Coordinates are multiples of a quarter foot (every coordinate the code  *)
(* computes is an integer times 0.25, 0.5 or 0.75) and are held as a whole *)
(* number of quarter feet; room dimensions are held in feet, as in         *)
(* MIN_DIMS.                                                               *)
(***************************************************************************)
EXTENDS Integers, Sequences, FiniteSets, TLC

VARIABLES
    cache,          \* st.cache_data memo of generate_plan_options: args -> plans
    last,           \* the latest call of generate_plan_options: its args and what it returned
    width,          \* st.session_state['width'],  the "Plot Width (ft)" widget
    length,         \* st.session_state['length'], the "Plot Length (ft)" widget
    facing,         \* st.session_state['facing'], the facing selectbox
    bhk,            \* st.session_state['bhk'],    the bedroom selectbox
    session_state,  \* st.session_state keys 'last_run' and 'plans'
    button_args,    \* args bound to the button's on_click by the latest run of main
    screen,         \* what the latest run of main rendered below the divider
    room,           \* classification probe: room name
    zone,           \* classification probe: zone code
    color,          \* classification probe: facecolor plot_plan picks
    report          \* classification probe: message kind main's report picks

vars == <<cache, last, width, length, facing, bhk, session_state, button_args,
          screen, room, zone, color, report>>

genVars == <<cache, last>>
uiVars  == <<width, length, facing, bhk, session_state, button_args, screen>>
clsVars == <<room, zone, color, report>>

----------------------------------------------------------------------------
(* Bounds *)

MaxSteps   == 2     \* direct calls use plot sizes STEP, 2*STEP, .. MaxSteps*STEP
MaxCached  == 2     \* entries the memo may hold
MaxUISteps == 1     \* widget values range over default .. default + MaxUISteps*STEP

----------------------------------------------------------------------------
(* Zone codes as character sequences *)

N_  == <<"N">>
NE  == <<"N", "E">>
E_  == <<"E">>
SE  == <<"S", "E">>
S_  == <<"S">>
SW  == <<"S", "W">>
W_  == <<"W">>
NW  == <<"N", "W">>
CENTER_E  == <<"C", "e", "n", "t", "e", "r", "/", "E">>
DEFECT    == <<"D", "E", "F", "E", "C", "T">>
NE_DEFECT == NE \o <<"-">> \o DEFECT

\* Python's `sub in s` on strings
Contains(sub, s) ==
    \E i \in 1..(Len(s) - Len(sub) + 1) : SubSeq(s, i, i + Len(sub) - 1) = sub

----------------------------------------------------------------------------
(* 1. Rule tables *)

ROOM_RULES ==
    ("Kitchen" :> SE) @@ ("Master Bedroom" :> SW) @@
    ("Pooja Room" :> NE) @@ ("Toilet" :> NW)

MIN_DIMS ==
    ("Kitchen" :> <<10, 8>>) @@ ("Master Bedroom" :> <<12, 14>>) @@
    ("Pooja Room" :> <<6, 6>>) @@ ("Toilet" :> <<5, 7>>) @@
    ("Bedroom 2" :> <<10, 10>>) @@ ("Bedroom 3" :> <<10, 10>>) @@
    ("Living Room" :> <<15, 12>>)

----------------------------------------------------------------------------
(* 2. Plan generation *)

QuartersPerFoot == 4

\* v * 0.25, v * 0.50, v * 0.75 : `hundredths` is the literal factor times 100
Scale(v, hundredths) == (v * hundredths * QuartersPerFoot) \div 100

\* variant: integer division, v // 2
Half_FloorDiv(v) == (v \div 2) * QuartersPerFoot

\* v / 2
Half(v) == (v * QuartersPerFoot) \div 2

\* one entry of a plan_data dict: room -> (x_pos, y_pos, dims, zone)
Entry(r, x, y, d, z) == [room |-> r, x_pos |-> x, y_pos |-> y, dims |-> d, zone |-> z]

\* variant: the anchor taken as the rectangle's corner, so the centre is
\* moved by half the room's size
plan_data_1_CornerAnchored(plot_width, plot_length, num_bhk) ==
    LET Put(r, fx, fy, z) ==
            Entry(r, Scale(plot_width, fx) - Half(MIN_DIMS[r][1]),
                     Scale(plot_length, fy) - Half(MIN_DIMS[r][2]), MIN_DIMS[r], z)
        six == << Put("Master Bedroom", 25, 25, SW), Put("Kitchen", 75, 25, SE),
                  Put("Pooja Room", 75, 75, NE), Put("Toilet", 25, 75, NW),
                  Put("Bedroom 2", 50, 75, N_), Put("Living Room", 50, 50, CENTER_E) >>
    IN  IF num_bhk = 3 THEN Append(six, Put("Bedroom 3", 50, 25, S_)) ELSE six

plan_data_1(plot_width, plot_length, num_bhk) ==
    LET center_x == Half(plot_width)
        six == <<
          Entry("Master Bedroom", Scale(plot_width, 25), Scale(plot_length, 25), MIN_DIMS["Master Bedroom"], SW),
          Entry("Kitchen",        Scale(plot_width, 75), Scale(plot_length, 25), MIN_DIMS["Kitchen"], SE),
          Entry("Pooja Room",     Scale(plot_width, 75), Scale(plot_length, 75), MIN_DIMS["Pooja Room"], NE),
          Entry("Toilet",         Scale(plot_width, 25), Scale(plot_length, 75), MIN_DIMS["Toilet"], NW),
          Entry("Bedroom 2",      Scale(plot_width, 50), Scale(plot_length, 75), MIN_DIMS["Bedroom 2"], N_),
          Entry("Living Room",    center_x,              Scale(plot_length, 50), MIN_DIMS["Living Room"], CENTER_E) >>
    IN  IF num_bhk = 3
        THEN Append(six, Entry("Bedroom 3", Scale(plot_width, 50), Scale(plot_length, 25), MIN_DIMS["Bedroom 3"], S_))
        ELSE six

\* variant: option 2 without the num_bhk == 3 block
plan_data_2_NoThirdBedroom(plot_width, plot_length, num_bhk) ==
    LET center_x == Half(plot_width) IN
    << Entry("Master Bedroom", Scale(plot_width, 25), Scale(plot_length, 25), MIN_DIMS["Master Bedroom"], SW),
       Entry("Kitchen",        Scale(plot_width, 75), Scale(plot_length, 75), MIN_DIMS["Kitchen"], NE_DEFECT),
       Entry("Pooja Room",     Scale(plot_width, 75), Scale(plot_length, 25), MIN_DIMS["Pooja Room"], SE),
       Entry("Toilet",         Scale(plot_width, 25), Scale(plot_length, 75), MIN_DIMS["Toilet"], NW),
       Entry("Bedroom 2",      Scale(plot_width, 50), Scale(plot_length, 75), MIN_DIMS["Bedroom 2"], N_),
       Entry("Living Room",    center_x,              Scale(plot_length, 50), MIN_DIMS["Living Room"], CENTER_E) >>

plan_data_2(plot_width, plot_length, num_bhk) ==
    LET center_x == Half(plot_width)
        six == <<
          Entry("Master Bedroom", Scale(plot_width, 25), Scale(plot_length, 25), MIN_DIMS["Master Bedroom"], SW),
          Entry("Kitchen",        Scale(plot_width, 75), Scale(plot_length, 75), MIN_DIMS["Kitchen"], NE_DEFECT),
          Entry("Pooja Room",     Scale(plot_width, 75), Scale(plot_length, 25), MIN_DIMS["Pooja Room"], SE),
          Entry("Toilet",         Scale(plot_width, 25), Scale(plot_length, 75), MIN_DIMS["Toilet"], NW),
          Entry("Bedroom 2",      Scale(plot_width, 50), Scale(plot_length, 75), MIN_DIMS["Bedroom 2"], N_),
          Entry("Living Room",    center_x,              Scale(plot_length, 50), MIN_DIMS["Living Room"], CENTER_E) >>
    IN  IF num_bhk = 3
        THEN Append(six, Entry("Bedroom 3", Scale(plot_width, 50), Scale(plot_length, 25), MIN_DIMS["Bedroom 3"], S_))
        ELSE six

\* variant: the second plans.append indented into the num_bhk == 3 block
generate_plan_options_SecondInsideIf(plot_width, plot_length, facing_direction, num_bhk) ==
    LET first == << [title |-> "Option 1: Traditional Layout",
                     data  |-> plan_data_1(plot_width, plot_length, num_bhk)] >>
    IN  IF num_bhk = 3
        THEN Append(first, [title |-> "Option 2: High Flexibility (Check for Dosha)",
                            data  |-> plan_data_2(plot_width, plot_length, num_bhk)])
        ELSE first

\* variant: a plot that faces North or South is laid out with width and
\* length exchanged
generate_plan_options_UsesFacing(plot_width, plot_length, facing_direction, num_bhk) ==
    LET w == IF facing_direction \in {"North", "South"} THEN plot_length ELSE plot_width
        l == IF facing_direction \in {"North", "South"} THEN plot_width ELSE plot_length
    IN  << [title |-> "Option 1: Traditional Layout",
            data  |-> plan_data_1(w, l, num_bhk)],
           [title |-> "Option 2: High Flexibility (Check for Dosha)",
            data  |-> plan_data_2(w, l, num_bhk)] >>

\* the body of generate_plan_options (what runs on a memo miss)
generate_plan_options(plot_width, plot_length, facing_direction, num_bhk) ==
    << [title |-> "Option 1: Traditional Layout",
        data  |-> plan_data_1(plot_width, plot_length, num_bhk)],
       [title |-> "Option 2: High Flexibility (Check for Dosha)",
        data  |-> plan_data_2(plot_width, plot_length, num_bhk)] >>

----------------------------------------------------------------------------
(* Classification, written twice in the code with the same text: in        *)
(* plot_plan (facecolor) and in main (report line).                        *)

is_compliant(r, z) == r \in DOMAIN ROOM_RULES /\ ROOM_RULES[r] = z

\* variant: without `not is_compliant`
is_defect_NoExclusion(r, z) ==
    \/ Contains(DEFECT, z)
    \/ (r \in DOMAIN ROOM_RULES /\ ~Contains(DEFECT, z))

\* variant: only the marker makes a defect
is_defect_MarkerOnly(r, z) == Contains(DEFECT, z)

\* variant: only a room with an ideal zone can be a defect
is_defect_RulesOnly(r, z) == r \in DOMAIN ROOM_RULES /\ ~is_compliant(r, z)

is_defect(r, z) ==
    \/ Contains(DEFECT, z)
    \/ (r \in DOMAIN ROOM_RULES /\ ~is_compliant(r, z) /\ ~Contains(DEFECT, z))

\* plot_plan: the facecolor of the room's rectangle
facecolor(r, z) ==
    IF is_compliant(r, z) THEN "#4CAF50"
    ELSE IF is_defect(r, z) THEN "#F44336"
    ELSE "#2196F3"

\* main: which of st.success / st.error / st.info reports the room
report_kind(r, z) ==
    IF is_compliant(r, z) THEN "success"
    ELSE IF is_defect(r, z) THEN "error"
    ELSE "info"

\* plot_plan: the room's rectangle, lower-left corner and size, in quarter feet
Rectangle(e) ==
    LET w == e.dims[1]
        l == e.dims[2]
    IN  [x |-> e.x_pos - Half(w), y |-> e.y_pos - Half(l),
         w |-> w * QuartersPerFoot, l |-> l * QuartersPerFoot]

\* plot_plan: the plot outline and one coloured, labelled rectangle per room
plot_plan(plan_data, plot_w, plot_l, title) ==
    [outline |-> [x |-> 0, y |-> 0, w |-> plot_w * QuartersPerFoot, l |-> plot_l * QuartersPerFoot],
     title   |-> title,
     rooms   |-> [i \in 1..Len(plan_data) |->
                    [rect  |-> Rectangle(plan_data[i]),
                     color |-> facecolor(plan_data[i].room, plan_data[i].zone),
                     text  |-> <<plan_data[i].room, plan_data[i].zone>>]]]

----------------------------------------------------------------------------
(* Inputs *)

STEP          == 5
MIN_VALUE     == 10
WIDTH_VALUE   == 30
LENGTH_VALUE  == 40
FACINGS       == {"East", "North", "West", "South"}
FACING_FIRST  == "East"
BHKS          == {2, 3}
BHK_FIRST     == 2

\* plot sizes of direct calls
PlotSizes == {STEP * k : k \in 1..MaxSteps}

\* values the number_input widgets take
WidthValues  == {v \in {WIDTH_VALUE + STEP * k : k \in 0..MaxUISteps} : v >= MIN_VALUE}
LengthValues == {v \in {LENGTH_VALUE + STEP * k : k \in 0..MaxUISteps} : v >= MIN_VALUE}

\* the eight octants and the centre label, each with and without a defect marker
Directions == {N_, NE, E_, SE, S_, SW, W_, NW, CENTER_E}
ZoneCodes  == Directions \cup {d \o <<"-">> \o DEFECT : d \in Directions}

\* the rooms of the rule tables and one name that is in neither table
UNKNOWN_ROOM == "Garage"
RoomNames    == DOMAIN MIN_DIMS \cup {UNKNOWN_ROOM}

----------------------------------------------------------------------------
(* The memo of @st.cache_data *)

EmptyCache == [k \in {} |-> <<>>]
NoCall     == [args |-> <<>>, plans |-> <<>>]

\* a call whose arguments are not memoised: run the body, store and return the result
CacheMiss(w, l, f, n) ==
    LET key == <<w, l, f, n>> IN
    /\ key \notin DOMAIN cache
    /\ Cardinality(DOMAIN cache) < MaxCached
    /\ cache' = cache @@ (key :> generate_plan_options(w, l, f, n))
    /\ last' = [args |-> key, plans |-> generate_plan_options(w, l, f, n)]

\* a call whose arguments are memoised: return the stored result
CacheHit(w, l, f, n) ==
    LET key == <<w, l, f, n>> IN
    /\ key \in DOMAIN cache
    /\ last' = [args |-> key, plans |-> cache[key]]
    /\ UNCHANGED cache

\* generate_plan_options as callers see it
CachedCall(w, l, f, n) == CacheMiss(w, l, f, n) \/ CacheHit(w, l, f, n)

----------------------------------------------------------------------------
(* 3. Streamlit front end *)

\* dict.get(key, default)
Get(d, key, default) == IF key \in DOMAIN d THEN d[key] ELSE default

\* main, from the divider on: what is shown for session state ss and the
\* widget values plot_w, plot_l of this run
Display(ss, plot_w, plot_l) ==
    IF Get(ss, "last_run", FALSE)
    THEN LET plans == Get(ss, "plans", <<>>) IN
         IF plans # <<>>
         THEN [kind    |-> "layouts",
               figures |-> [i \in 1..Len(plans) |->
                              plot_plan(plans[i].data, plot_w, plot_l, plans[i].title)],
               details |-> [i \in 1..Len(plans) |->
                              [j \in 1..Len(plans[i].data) |->
                                 [room |-> plans[i].data[j].room,
                                  kind |-> report_kind(plans[i].data[j].room, plans[i].data[j].zone)]]]]
         ELSE [kind |-> "error", figures |-> <<>>, details |-> <<>>]
    ELSE [kind |-> "info", figures |-> <<>>, details |-> <<>>]

\* one run of main over the widget values w, l, f, n and session state ss:
\* the button is bound to the widget values, then the results are displayed
Rerun(w, l, f, n, ss) ==
    /\ button_args' = <<w, l, f, n>>
    /\ screen' = Display(ss, w, l)

\* generate_and_store_plans, the button's on_click
generate_and_store_plans(plot_w, plot_l, facing_, num_bhk) ==
    /\ CachedCall(plot_w, plot_l, facing_, num_bhk)
    /\ session_state' = [last_run |-> TRUE, plans |-> last'.plans]

\* the user changes the plot width; Streamlit reruns main
EditWidth(v) ==
    /\ v # width
    /\ width' = v
    /\ UNCHANGED <<length, facing, bhk, session_state, cache, last>>
    /\ Rerun(v, length, facing, bhk, session_state)

\* the user changes the plot length; Streamlit reruns main
EditLength(v) ==
    /\ v # length
    /\ length' = v
    /\ UNCHANGED <<width, facing, bhk, session_state, cache, last>>
    /\ Rerun(width, v, facing, bhk, session_state)

\* the user picks another facing direction; Streamlit reruns main
EditFacing(v) ==
    /\ v # facing
    /\ facing' = v
    /\ UNCHANGED <<width, length, bhk, session_state, cache, last>>
    /\ Rerun(width, length, v, bhk, session_state)

\* the user picks another bedroom count; Streamlit reruns main
EditBhk(v) ==
    /\ v # bhk
    /\ bhk' = v
    /\ UNCHANGED <<width, length, facing, session_state, cache, last>>
    /\ Rerun(width, length, facing, v, session_state)

\* the user clicks "Generate Vastu Plans": the callback runs with the bound
\* args, then Streamlit reruns main
ClickGenerate ==
    /\ generate_and_store_plans(button_args[1], button_args[2], button_args[3], button_args[4])
    /\ UNCHANGED <<width, length, facing, bhk>>
    /\ Rerun(width, length, facing, bhk, session_state')

----------------------------------------------------------------------------
(* Classification of one placement *)

PENDING == "pending"

\* the colour plot_plan and the report main give the placement (room, zone)
Classify ==
    /\ color = PENDING
    /\ color' = facecolor(room, zone)
    /\ report' = report_kind(room, zone)
    /\ UNCHANGED <<room, zone>>

----------------------------------------------------------------------------
(* Specifications *)

\* no call made yet
GenIdle == cache = EmptyCache /\ last = NoCall

\* after the first run of main in a new session
UIFirstRun ==
    /\ width = WIDTH_VALUE
    /\ length = LENGTH_VALUE
    /\ facing = FACING_FIRST
    /\ bhk = BHK_FIRST
    /\ session_state = [last_run |-> FALSE]
    /\ button_args = <<WIDTH_VALUE, LENGTH_VALUE, FACING_FIRST, BHK_FIRST>>
    /\ screen = Display([last_run |-> FALSE], WIDTH_VALUE, LENGTH_VALUE)

ClsIdle == room = "Kitchen" /\ zone = SE /\ color = PENDING /\ report = PENDING

\* direct calls of generate_plan_options over the valid inputs
Init == GenIdle /\ UIFirstRun /\ ClsIdle

Next ==
    \/ \E w \in PlotSizes, l \in PlotSizes, f \in FACINGS, n \in BHKS :
          CacheMiss(w, l, f, n) /\ UNCHANGED <<uiVars, clsVars>>
    \/ \E w \in PlotSizes, l \in PlotSizes, f \in FACINGS, n \in BHKS :
          CacheHit(w, l, f, n) /\ UNCHANGED <<uiVars, clsVars>>

Spec == Init /\ [][Next]_vars

\* a browser session
InitUI == GenIdle /\ UIFirstRun /\ ClsIdle

NextUI ==
    \/ \E v \in WidthValues : EditWidth(v) /\ UNCHANGED clsVars
    \/ \E v \in LengthValues : EditLength(v) /\ UNCHANGED clsVars
    \/ \E v \in FACINGS : EditFacing(v) /\ UNCHANGED clsVars
    \/ \E v \in BHKS : EditBhk(v) /\ UNCHANGED clsVars
    \/ ClickGenerate /\ UNCHANGED clsVars

SpecUI == InitUI /\ [][NextUI]_vars

\* the classification applied to every room name and zone code
InitClassify ==
    /\ GenIdle /\ UIFirstRun
    /\ room \in RoomNames
    /\ zone \in ZoneCodes
    /\ color = PENDING
    /\ report = PENDING

NextClassify == Classify /\ UNCHANGED <<genVars, uiVars>>

SpecClassify == InitClassify /\ [][NextClassify]_vars

----------------------------------------------------------------------------
(* Properties *)

Called       == last # NoCall
Layout1      == last.plans[1].data
Layout2      == last.plans[2].data
RoomsOf(d)   == {d[i].room : i \in 1..Len(d)}
EntriesOf(d) == {d[i] : i \in 1..Len(d)}
At(d, r)     == CHOOSE e \in EntriesOf(d) : e.room = r

SixRooms == {"Master Bedroom", "Kitchen", "Pooja Room", "Toilet", "Bedroom 2", "Living Room"}
RequiredRooms(n) == IF n = 3 THEN SixRooms \cup {"Bedroom 3"} ELSE SixRooms

\* C1: every call returns exactly two layouts, titled "Option 1: Traditional
\* Layout" and "Option 2: High Flexibility (Check for Dosha)", in this order.
C1_TwoTitledLayouts ==
    Called =>
        /\ Len(last.plans) = 2
        /\ last.plans[1].title = "Option 1: Traditional Layout"
        /\ last.plans[2].title = "Option 2: High Flexibility (Check for Dosha)"

\* a 2-bedroom call and a 3-bedroom call have both been answered
C1_Witness ==
    /\ Called
    /\ last.args[4] = 2
    /\ \E k \in DOMAIN cache : k[4] = 3 /\ Len(cache[k]) = 2

\* C2: both layouts hold the same rooms, six for 2 bedrooms and the six plus
\* "Bedroom 3" for 3 bedrooms, each room once, and every room has in both
\* layouts the dimensions MIN_DIMS gives it, whatever the plot size.
C2_SameRoomsSameDims ==
    Called =>
        /\ RoomsOf(Layout1) = RoomsOf(Layout2)
        /\ RoomsOf(Layout1) = RequiredRooms(last.args[4])
        /\ Len(Layout1) = (IF last.args[4] = 3 THEN 7 ELSE 6)
        /\ Len(Layout2) = Len(Layout1)
        /\ \A r \in RoomsOf(Layout1) :
              /\ At(Layout1, r).dims = At(Layout2, r).dims
              /\ At(Layout1, r).dims = MIN_DIMS[r]

\* a 3-bedroom call on the smallest plot returned Bedroom 3 in both layouts
C2_Witness ==
    /\ Called
    /\ last.args[4] = 3
    /\ last.args[1] = STEP
    /\ "Bedroom 3" \in RoomsOf(Layout1) \cap RoomsOf(Layout2)
    /\ At(Layout2, "Bedroom 3").dims = <<10, 10>>

\* C3: for every room name and zone code is_compliant and is_defect are never
\* both true, and the colour and the report line each name exactly one of
\* compliant, defect, neutral: compliant iff is_compliant, defect iff
\* is_defect, neutral iff neither.
C3_ExactlyOneClass ==
    color # PENDING =>
        LET c == is_compliant(room, zone)
            d == is_defect(room, zone)
        IN  /\ ~(c /\ d)
            /\ report \in {"success", "error", "info"}
            /\ (report = "success") <=> c
            /\ (report = "error") <=> d
            /\ (report = "info") <=> (~c /\ ~d)
            /\ (color = "#4CAF50") <=> c
            /\ (color = "#F44336") <=> d
            /\ (color = "#2196F3") <=> (~c /\ ~d)

\* a room with an ideal zone has been classified in that zone
C3_Witness ==
    /\ color = "#4CAF50"
    /\ report = "success"
    /\ room = "Toilet"
    /\ zone = NW

\* the placement table of the design: per room the centre fractions (in
\* hundredths) and the zone, for layout 1 and layout 2
PlacementTable ==
    ("Master Bedroom" :> << <<25, 25, SW>>,       <<25, 25, SW>> >>) @@
    ("Kitchen"        :> << <<75, 25, SE>>,       <<75, 75, NE_DEFECT>> >>) @@
    ("Pooja Room"     :> << <<75, 75, NE>>,       <<75, 25, SE>> >>) @@
    ("Toilet"         :> << <<25, 75, NW>>,       <<25, 75, NW>> >>) @@
    ("Bedroom 2"      :> << <<50, 75, N_>>,       <<50, 75, N_>> >>) @@
    ("Living Room"    :> << <<50, 50, CENTER_E>>, <<50, 50, CENTER_E>> >>) @@
    ("Bedroom 3"      :> << <<50, 25, S_>>,       <<50, 25, S_>> >>)

\* C4: every room of either layout has centre (f_x * plotWidth, f_y *
\* plotLength) and the zone of the placement table; layout 1's Kitchen is
\* reported compliant and layout 2's Kitchen is reported as a defect.
C4_PlacementTable ==
    Called =>
        /\ \A i \in 1..2 :
              /\ RoomsOf(last.plans[i].data) = RequiredRooms(last.args[4])
              /\ \A e \in EntriesOf(last.plans[i].data) :
                    LET row == PlacementTable[e.room][i] IN
                    /\ e.x_pos * 100 = row[1] * last.args[1] * QuartersPerFoot
                    /\ e.y_pos * 100 = row[2] * last.args[2] * QuartersPerFoot
                    /\ e.zone = row[3]
        /\ report_kind("Kitchen", At(Layout1, "Kitchen").zone) = "success"
        /\ report_kind("Kitchen", At(Layout2, "Kitchen").zone) = "error"

\* a call on a plot of odd width: the Living Room is centred on a half foot
C4_Witness ==
    /\ Called
    /\ last.args[1] = STEP
    /\ last.args[2] = 2 * STEP
    /\ At(Layout1, "Living Room").x_pos = 10
    /\ At(Layout2, "Kitchen").y_pos = 30

\* the placements of both layouts that the report marks as a defect
Defects ==
    UNION { { <<i, e.room>> : e \in {x \in EntriesOf(last.plans[i].data) :
                                        report_kind(x.room, x.zone) = "error"} }
            : i \in 1..Len(last.plans) }

\* C5, as claimed: layout 2's Kitchen is the only placement of the two
\* layouts that is classified as a defect.
C5_OnlyKitchenDefect == Called => Defects = {<<2, "Kitchen">>}

\* C5, amended: exactly two placements are classified as a defect, layout 2's
\* Kitchen (zone NE-DEFECT) and layout 2's Pooja Room (zone SE, ideal NE);
\* every other placement is compliant or neutral.
C5_KitchenAndPoojaDefect ==
    Called =>
        /\ Defects = {<<2, "Kitchen">>, <<2, "Pooja Room">>}
        /\ \A i \in 1..2 : \A e \in EntriesOf(last.plans[i].data) :
              <<i, e.room>> \notin Defects => report_kind(e.room, e.zone) \in {"success", "info"}

\* a call returned layout 2 with the Pooja Room in SE, reported as a defect
C5_Witness ==
    /\ Called
    /\ At(Layout2, "Pooja Room").zone = SE
    /\ report_kind("Pooja Room", At(Layout2, "Pooja Room").zone) = "error"
    /\ facecolor("Kitchen", At(Layout2, "Kitchen").zone) = "#F44336"

\* zone codes that carry the defect marker
Marked == {d \o <<"-">> \o DEFECT : d \in Directions}

\* C6, as claimed: a room without an ideal zone is neutral in every zone, and
\* a placement is a defect only if its room has an ideal zone that differs
\* from the assigned zone.
C6_NoRuleIsNeutral ==
    color # PENDING =>
        /\ room \in DOMAIN MIN_DIMS \ DOMAIN ROOM_RULES => report = "info"
        /\ report = "error" => (room \in DOMAIN ROOM_RULES /\ ROOM_RULES[room] # zone)

\* C6, amended: a room without an ideal zone is neutral in every zone code
\* that does not contain "DEFECT" and a defect in every zone code that does;
\* a placement is a defect exactly if its zone contains "DEFECT" or its room
\* has an ideal zone that differs from the assigned zone.
C6_NoRuleNeutralUnlessMarked ==
    color # PENDING =>
        /\ room \notin DOMAIN ROOM_RULES =>
              /\ zone \notin Marked => (report = "info" /\ color = "#2196F3")
              /\ zone \in Marked => (report = "error" /\ color = "#F44336")
        /\ (report = "error") <=>
              (zone \in Marked \/ (room \in DOMAIN ROOM_RULES /\ ROOM_RULES[room] # zone))

\* the Living Room has been classified in a zone that carries the marker
C6_Witness ==
    /\ color # PENDING
    /\ room = "Living Room"
    /\ zone = CENTER_E \o <<"-">> \o DEFECT
    /\ report = "error"

\* C7: classifying a room that is in neither rule table ends in an
\* UnknownRoom error; the room is never classified neutral.
C7_UnknownRoomFails ==
    (color # PENDING /\ room \notin DOMAIN ROOM_RULES /\ room \notin DOMAIN MIN_DIMS) =>
        (report = "UnknownRoom" /\ color = "UnknownRoom")

\* C8: the result depends on plot width, plot length and bedroom count only:
\* every call ever answered with the same three values, whatever its facing
\* direction and whatever was called before it, returned the same layouts.
C8_FacingAndHistoryIrrelevant ==
    /\ \A k \in DOMAIN cache :
          (Called /\ k[1] = last.args[1] /\ k[2] = last.args[2] /\ k[4] = last.args[4])
             => cache[k] = last.plans
    /\ \A k1, k2 \in DOMAIN cache :
          (k1[1] = k2[1] /\ k1[2] = k2[2] /\ k1[4] = k2[4]) => cache[k1] = cache[k2]

\* two calls that differ in the facing direction only have been answered
C8_Witness ==
    /\ Called
    /\ Cardinality(DOMAIN cache) = 2
    /\ \E k \in DOMAIN cache :
          /\ k[3] # last.args[3]
          /\ k[1] = last.args[1] /\ k[2] = last.args[2] /\ k[4] = last.args[4]

\* C9: the centre of every placement of both layouts lies within the plot.
C9_CentreInsidePlot ==
    Called =>
        \A i \in 1..Len(last.plans) : \A e \in EntriesOf(last.plans[i].data) :
            /\ 0 <= e.x_pos /\ e.x_pos <= last.args[1] * QuartersPerFoot
            /\ 0 <= e.y_pos /\ e.y_pos <= last.args[2] * QuartersPerFoot

\* a call on a 10 x 10 plot: a room's rectangle reaches past the plot edge
C9_Witness ==
    /\ Called
    /\ last.args[1] = MIN_VALUE /\ last.args[2] = MIN_VALUE
    /\ \E e \in EntriesOf(Layout1) :
          \/ Rectangle(e).x < 0
          \/ Rectangle(e).x + Rectangle(e).w > last.args[1] * QuartersPerFoot

\* C10: no layouts are shown before the first click, and whenever layouts are
\* shown they are the layouts of the plot width, plot length and bedroom
\* count now entered, the ones the plot outline is drawn from.
C10_ShownLayoutsMatchInputs ==
    /\ ~session_state.last_run => screen.kind = "info"
    /\ session_state.last_run =>
          /\ screen.kind = "layouts"
          /\ session_state.plans = generate_plan_options(width, length, facing, bhk)
          /\ \A i \in 1..Len(screen.figures) :
                screen.figures[i] =
                   plot_plan(generate_plan_options(width, length, facing, bhk)[i].data,
                             width, length, screen.figures[i].title)

====
